---------------------------- MODULE Spec2Model ----------------------------
(***************************************************************************)
(* A model of lib/ansible/playbook/task_include.py: the TaskInclude        *)
(* directive, its option validation (check_options), its keyword check     *)
(* (preprocess_data), its duplication (copy) and the construction of the   *)
(* parent block of the included tasks (build_parent_block).                *)
(*                                                                         *)
(* Python values are represented by their repr, as strings:                *)
(*   "None", "" (empty str), "[]" (empty list), "{}" (empty dict)  falsy   *)
(*   "x.yml", "y.yml", "not-a-mapping", "1"                 truthy strings *)
(*   "{tags:[a]}"                                     a non-empty dict     *)
(*   "Sentinel"                       the ansible.utils.sentinel class     *)
(* A dict with string keys is a TLA+ function whose domain is its keys.    *)
(***************************************************************************)
EXTENDS Naturals, Sequences, FiniteSets, TLC

VARIABLES
    tasks,      \* the TaskInclude objects, by identity (index): action, args,
                \* _parent and statically_loaded
    blocks,     \* the Block objects built by build_parent_block, by identity
    calls,      \* per TaskInclude, what its first build_parent_block call and
                \* its later ones returned or raised
    last,       \* the last operation: its inputs and what it returned or raised
    display,    \* the warnings handed to display.warning, in order
    INVALID_TASK_ATTRIBUTE_FAILED   \* C.INVALID_TASK_ATTRIBUTE_FAILED

vars == <<tasks, blocks, calls, last, display, INVALID_TASK_ATTRIBUTE_FAILED>>

---------------------------------------------------------------------------
(* Bounds of the model *)

\* TaskInclude objects alive in one behaviour (one loaded, the others copies)
MaxTasks == 2
\* warnings kept by the display sink
MaxDisplay == 3

---------------------------------------------------------------------------
(* Python values *)

Falsy == {"None", "", "[]", "{}"}

Truthy(v) == v \notin Falsy

Dicts == {"{}", "{tags:[a]}"}

\* isinstance(v, dict)
IsDict(v) == v \in Dicts

\* d.get(k, default)
Get(d, k, default) == IF k \in DOMAIN d THEN d[k] ELSE default

\* d after d.pop(k, default)
Without(d, k) == [x \in DOMAIN d \ {k} |-> d[x]]

\* d after d[k] = v
Put(d, k, v) == [x \in DOMAIN d \cup {k} |-> IF x = k THEN v ELSE d[x]]

---------------------------------------------------------------------------
(* Class data of TaskInclude, and the action families of ansible.constants *)

BASE == {"file", "_raw_params"}

OTHER_ARGS == {"apply"}

VALID_ARGS == BASE \cup OTHER_ARGS

VALID_INCLUDE_KEYWORDS ==
    {"action", "args", "collections", "debugger", "ignore_errors", "loop",
     "loop_control", "loop_with", "name", "no_log", "register", "run_once",
     "tags", "timeout", "vars", "when"}

\* C._ACTION_INCLUDE_TASKS: the dynamic "include tasks" action
ACTION_INCLUDE_TASKS == {"include_tasks"}

\* C._ACTION_ALL_PROPER_INCLUDE_IMPORT_TASKS: the include/import-tasks family
ACTION_ALL_PROPER_INCLUDE_IMPORT_TASKS == {"include_tasks", "import_tasks"}

\* C._ACTION_ALL_INCLUDE_ROLE_TASKS: the include-role family of preprocess_data
ACTION_ALL_INCLUDE_ROLE_TASKS == {"include_role", "import_role"}

Actions == {"include_tasks", "import_tasks", "include_role", "import_role"}

---------------------------------------------------------------------------
(* TaskInclude.check_options *)

\* what check_options returns or raises, with task.args as it leaves them
Returned(args) == [kind |-> "ok", keys |-> {}, args |-> args]

Raised(kind, keys, args) == [kind |-> kind, keys |-> keys, args |-> args]

bad_opts_none(args) == {}

\* bad_opts: the keys of task.args that are not valid args
bad_opts(args) == DOMAIN args \ VALID_ARGS

fold_file_keep(args) == Put(args, "_raw_params", Get(args, "file", "None"))

fold_file_ignore(args) == Put(Without(args, "file"), "_raw_params", "None")

\* task.args['_raw_params'] = task.args.pop('file', None)
fold_file(args) == Put(Without(args, "file"), "_raw_params", Get(args, "file", "None"))

no_file_never(args) == FALSE

\* not task.args['_raw_params'], after the fold
no_file(args) == ~Truthy(args["_raw_params"])

apply_forbidden_static(action, apply_attrs) ==
    Truthy(apply_attrs) /\ action \notin ACTION_ALL_PROPER_INCLUDE_IMPORT_TASKS

\* apply_attrs and task.action not in C._ACTION_INCLUDE_TASKS
apply_forbidden(action, apply_attrs) ==
    Truthy(apply_attrs) /\ action \notin ACTION_INCLUDE_TASKS

apply_not_dict_unchecked(apply_attrs) == FALSE

\* not isinstance(apply_attrs, dict)
apply_not_dict(apply_attrs) == ~IsDict(apply_attrs)

check_options(action, args) ==
    IF bad_opts(args) # {} /\ action \in ACTION_ALL_PROPER_INCLUDE_IMPORT_TASKS
    THEN Raised("InvalidOption", bad_opts(args), args)
    ELSE LET folded == IF ~Truthy(Get(args, "_raw_params", "None"))
                       THEN fold_file(args)
                       ELSE args
         IN  IF ~Truthy(Get(args, "_raw_params", "None")) /\ no_file(folded)
             THEN Raised("MissingTarget", {}, folded)
             ELSE LET apply_attrs == Get(folded, "apply", "{}")
                  IN  IF apply_forbidden(action, apply_attrs)
                      THEN Raised("InvalidOption", {"apply"}, folded)
                      ELSE IF apply_not_dict(apply_attrs)
                      THEN Raised("TypeMismatch", {}, folded)
                      ELSE Returned(folded)

---------------------------------------------------------------------------
(* TaskInclude.__init__, load, copy, build_parent_block *)

\* self._parent is the enclosing block, or None when the directive has none
Parents == {"None", "block"}

\* TaskInclude(block=block): Task.__init__ keeps the parent, then the flag is set
TaskInclude_init(block) ==
    [action |-> "None", args |-> <<>>, _parent |-> block, statically_loaded |-> FALSE]

\* ti.load_data(data): the base loader fills action and args from the data
load_data(ti, data) == [ti EXCEPT !.action = data.action, !.args = data.args]

\* TaskInclude.load: the outcome of check_options, and the directive as it leaves it
load(data, block) ==
    LET ti == load_data(TaskInclude_init(block), data)
        r  == check_options(ti.action, ti.args)
    IN  [result |-> r, task |-> [ti EXCEPT !.args = r.args]]

\* Task.copy: a new object (so __init__ ran) with the action and args copied,
\* and the parent copied unless exclude_parent
Task_copy(task, exclude_parent, exclude_tasks) ==
    [TaskInclude_init(IF exclude_parent THEN "None" ELSE task._parent)
        EXCEPT !.action = task.action, !.args = task.args]

copy_fresh_flag(task, exclude_parent, exclude_tasks) ==
    Task_copy(task, exclude_parent, exclude_tasks)

copy(task, exclude_parent, exclude_tasks) ==
    [Task_copy(task, exclude_parent, exclude_tasks)
        EXCEPT !.statically_loaded = task.statically_loaded]

\* Block.load(apply_attrs, play=..., task_include=self, ...), apply_attrs['block'] = []
Block_load(apply_attrs, task_include) ==
    [attrs |-> apply_attrs, block |-> <<>>, task_include |-> task_include]

build_parent_block_get(task, self, new_block) ==
    LET apply_attrs == Get(task.args, "apply", "{}")
    IN  IF Truthy(apply_attrs)
        THEN IF ~IsDict(apply_attrs)
             THEN [ret |-> [kind |-> "TypeError", id |-> 0], args |-> task.args,
                   apply |-> apply_attrs]
             ELSE IF task._parent = "None"
             THEN [ret |-> [kind |-> "AttributeError", id |-> 0], args |-> task.args,
                   apply |-> apply_attrs]
             ELSE [ret |-> [kind |-> "block", id |-> new_block], args |-> task.args,
                   apply |-> apply_attrs]
        ELSE [ret |-> [kind |-> "task", id |-> self], args |-> task.args,
              apply |-> apply_attrs]

build_parent_block_always(task, self, new_block) ==
    LET apply_attrs == Get(task.args, "apply", "{}")
        args == Without(task.args, "apply")
    IN  IF task._parent = "None"
        THEN [ret |-> [kind |-> "AttributeError", id |-> 0], args |-> args,
              apply |-> apply_attrs]
        ELSE [ret |-> [kind |-> "block", id |-> new_block], args |-> args,
              apply |-> apply_attrs]

\* build_parent_block: what it returns or raises, self.args as it leaves them,
\* and the apply value it popped
build_parent_block(task, self, new_block) ==
    LET apply_attrs == Get(task.args, "apply", "{}")
        args == Without(task.args, "apply")
    IN  IF Truthy(apply_attrs)
        THEN IF ~IsDict(apply_attrs)
             \* apply_attrs['block'] = [] on a value that is no dict
             THEN [ret |-> [kind |-> "TypeError", id |-> 0], args |-> args,
                   apply |-> apply_attrs]
             \* self._parent._play on a directive without a parent
             ELSE IF task._parent = "None"
             THEN [ret |-> [kind |-> "AttributeError", id |-> 0], args |-> args,
                   apply |-> apply_attrs]
             ELSE [ret |-> [kind |-> "block", id |-> new_block], args |-> args,
                   apply |-> apply_attrs]
        ELSE [ret |-> [kind |-> "task", id |-> self], args |-> args,
              apply |-> apply_attrs]

---------------------------------------------------------------------------
(* The directive's life: loaded from data, copied, marked, resolved *)

\* a key a task node may or may not carry, with the values it is given here
Absent == "<absent>"

ArgChoices ==
    [file : {Absent, "", "x.yml"},
     _raw_params : {Absent, "", "y.yml"},
     apply : {Absent, "{}", "{tags:[a]}", "not-a-mapping", "[]"},
     foo : {Absent, "1"},
     bar : {Absent, "1"}]

\* the dict that holds the chosen keys
AsDict(c) == [k \in {x \in DOMAIN c : c[x] # Absent} |-> c[k]]

\* the args a task node can carry
ArgsSpace == {AsDict(c) : c \in ArgChoices}

DataSpace == [action : Actions, args : ArgsSpace]

\* build_parent_block was not called yet
NoCall == [apply |-> "None", ret |-> [kind |-> "none", id |-> 0]]

NoCalls == [first |-> NoCall, later |-> {}]

Init ==
    /\ tasks = <<>>
    /\ blocks = <<>>
    /\ calls = <<>>
    /\ last = [op |-> "init"]
    /\ display = <<>>
    /\ INVALID_TASK_ATTRIBUTE_FAILED = TRUE

\* TaskInclude.load(data, block=block): the directive exists only if validation
\* passes.  Directives loaded from different data share no state, so a behaviour
\* follows the first directive that loads and its copies.
Load ==
    /\ Len(tasks) = 0
    /\ \E data \in DataSpace, block \in Parents :
        LET l == load(data, block)
        IN  /\ last' = [op |-> "load", data |-> data, block |-> block,
                        result |-> l.result]
            /\ IF l.result.kind = "ok"
               THEN /\ tasks' = Append(tasks, l.task)
                    /\ calls' = Append(calls, NoCalls)
               ELSE UNCHANGED <<tasks, calls>>
    /\ UNCHANGED <<blocks, display, INVALID_TASK_ATTRIBUTE_FAILED>>

\* tasks[i].copy(exclude_parent, exclude_tasks)
Copy ==
    /\ Len(tasks) < MaxTasks
    /\ \E i \in 1..Len(tasks), exclude_parent \in BOOLEAN, exclude_tasks \in BOOLEAN :
        /\ tasks' = Append(tasks, copy(tasks[i], exclude_parent, exclude_tasks))
        /\ calls' = Append(calls, NoCalls)
        /\ last' = [op |-> "copy", src |-> i, new |-> Len(tasks) + 1,
                    exclude_parent |-> exclude_parent, exclude_tasks |-> exclude_tasks]
    /\ UNCHANGED <<blocks, display, INVALID_TASK_ATTRIBUTE_FAILED>>

\* the expansion engine marks a directive as statically resolved
MarkStatic ==
    /\ \E i \in 1..Len(tasks) :
        /\ ~tasks[i].statically_loaded
        /\ tasks' = [tasks EXCEPT ![i].statically_loaded = TRUE]
        /\ last' = [op |-> "mark_static", self |-> i]
    /\ UNCHANGED <<blocks, calls, display, INVALID_TASK_ATTRIBUTE_FAILED>>

\* tasks[i].build_parent_block()
BuildParentBlock ==
    /\ \E i \in 1..Len(tasks) :
        /\ LET b == build_parent_block(tasks[i], i, Len(blocks) + 1)
           IN  /\ tasks' = [tasks EXCEPT ![i].args = b.args]
               /\ blocks' = IF b.ret.kind = "block"
                            THEN Append(blocks, Block_load(b.apply, i))
                            ELSE blocks
               /\ calls' = [calls EXCEPT ![i] =
                                IF @.first = NoCall
                                THEN [@ EXCEPT !.first = [apply |-> b.apply, ret |-> b.ret]]
                                ELSE [@ EXCEPT !.later = @ \cup {b.ret}]]
               /\ last' = [op |-> "build_parent_block", self |-> i, before |-> tasks[i],
                           nblocks |-> Len(blocks), apply |-> b.apply, ret |-> b.ret]
    /\ UNCHANGED <<display, INVALID_TASK_ATTRIBUTE_FAILED>>

Next == Load \/ Copy \/ MarkStatic \/ BuildParentBlock

Spec == Init /\ [][Next]_vars

---------------------------------------------------------------------------
(* TaskInclude.preprocess_data *)

\* Task.preprocess_data: the data is kept, and delegate_to, when the author
\* gave none, is defaulted to the unset sentinel
Task_preprocess_data(ds) ==
    IF "delegate_to" \in DOMAIN ds THEN ds ELSE Put(ds, "delegate_to", "Sentinel")

\* the orders in which a set can be iterated
Orders(S) ==
    {f \in [1..Cardinality(S) -> S] : \A i, j \in 1..Cardinality(S) : f[i] = f[j] => i = j}

is_invalid_unset_too(ds, k) == ds["action"] \in ACTION_ALL_INCLUDE_ROLE_TASKS

\* ds[k] is not Sentinel and ds['action'] in C._ACTION_ALL_INCLUDE_ROLE_TASKS
is_invalid(ds, k) ==
    ds[k] # "Sentinel" /\ ds["action"] \in ACTION_ALL_INCLUDE_ROLE_TASKS

\* preprocess_data under the policy `failed`, the keys of diff iterated in `order`:
\* what it returns or raises and the warnings it displayed
preprocess_data(ds0, failed, order) ==
    LET ds == Task_preprocess_data(ds0)
        Invalid(k) == is_invalid(ds, k)
        invalid == SelectSeq(order, Invalid)
    IN  IF invalid # <<>> /\ failed
        THEN [kind |-> "InvalidAttribute", key |-> Head(invalid), ds |-> ds,
              warnings |-> <<>>]
        ELSE [kind |-> "ok", key |-> "None", ds |-> ds, warnings |-> invalid]

\* diff = set(ds.keys()).difference(self.VALID_INCLUDE_KEYWORDS), after the base call
diff(ds0) == DOMAIN Task_preprocess_data(ds0) \ VALID_INCLUDE_KEYWORDS

KeywordChoices ==
    [action : Actions,
     name : {Absent, "1"},
     become : {Absent, "1"},
     delegate_to : {Absent, "1"},
     foo : {Absent, "1"}]

\* the task nodes preprocess_data is given
DsSpace == {AsDict(c) : c \in KeywordChoices}

InitPre ==
    /\ tasks = <<>>
    /\ blocks = <<>>
    /\ calls = <<>>
    /\ last = [op |-> "init"]
    /\ display = <<>>
    /\ INVALID_TASK_ATTRIBUTE_FAILED \in BOOLEAN

\* preprocess_data(ds), its warnings handed to the display
PreprocessData ==
    /\ \E ds \in DsSpace :
        \E order \in Orders(diff(ds)) :
            LET r == preprocess_data(ds, INVALID_TASK_ATTRIBUTE_FAILED, order)
            IN  /\ Len(display) + Len(r.warnings) <= MaxDisplay
                /\ display' = display \o r.warnings
                /\ last' = [op |-> "preprocess_data", ds |-> ds, result |-> r]
    /\ UNCHANGED <<tasks, blocks, calls, INVALID_TASK_ATTRIBUTE_FAILED>>

NextPre == PreprocessData

SpecPre == InitPre /\ [][NextPre]_vars

---------------------------------------------------------------------------
(* What the claims speak of *)

\* the args given to the last load, and what check_options made of them
Loaded == last.op = "load"

GivenAction == last.data.action

GivenArgs == last.data.args

Outcome == last.result

\* the args name a non-empty include target
HasTarget(args) ==
    Truthy(Get(args, "_raw_params", "None")) \/ Truthy(Get(args, "file", "None"))

\* the keys of args outside VALID_ARGS
Outside(args) == {k \in DOMAIN args : k \notin {"file", "_raw_params", "apply"}}

TasksFamily == {"include_tasks", "import_tasks"}

\* the check of the keys comes first and fails
KeysRejected(action, args) == action \in TasksFamily /\ Outside(args) # {}

\* d and e agree on every key of d other than those of K
SameExcept(d, e, K) ==
    /\ DOMAIN d \ K = DOMAIN e \ K
    /\ \A k \in DOMAIN d \ K : d[k] = e[k]

---------------------------------------------------------------------------
\* C1 (as claimed): a check_options that returns leaves a non-empty
\* args['_raw_params'], and with neither _raw_params nor file non-empty it
\* raises MissingTarget, for every directive and every action.
C1_Claim ==
    Loaded =>
        /\ Outcome.kind = "ok" =>
              /\ "_raw_params" \in DOMAIN Outcome.args
              /\ Truthy(Outcome.args["_raw_params"])
        /\ ~HasTarget(GivenArgs) => Outcome.kind = "MissingTarget"

\* C1 (amended): a check_options that returns leaves a non-empty
\* args['_raw_params']; with neither _raw_params nor file non-empty it never
\* returns: it raises MissingTarget, unless the action is of the tasks family
\* and args has a key outside VALID_ARGS, which raises InvalidOption first.
C1_MissingTarget ==
    Loaded =>
        /\ Outcome.kind = "ok" =>
              /\ "_raw_params" \in DOMAIN Outcome.args
              /\ Truthy(Outcome.args["_raw_params"])
        /\ ~HasTarget(GivenArgs) =>
              Outcome.kind = IF KeysRejected(GivenAction, GivenArgs)
                             THEN "InvalidOption"
                             ELSE "MissingTarget"
        /\ \A i \in 1..Len(tasks) :
              "_raw_params" \in DOMAIN tasks[i].args /\ Truthy(tasks[i].args["_raw_params"])

C1_Witness ==
    /\ Loaded
    /\ ~HasTarget(GivenArgs)
    /\ DOMAIN GivenArgs = {"file", "_raw_params"}
    /\ Outcome.kind = "MissingTarget"

\* C2: for a tasks-family action, a key of args outside VALID_ARGS makes
\* check_options raise InvalidOption naming exactly the keys outside VALID_ARGS,
\* so a tasks-family directive that passes has no such key; for another action
\* these keys do not cause the failure: the outcome is the one without them.
C2_InvalidOption ==
    /\ Loaded =>
        /\ GivenAction \in TasksFamily /\ Outside(GivenArgs) # {} =>
              Outcome.kind = "InvalidOption" /\ Outcome.keys = Outside(GivenArgs)
        /\ GivenAction \in TasksFamily /\ Outcome.kind = "ok" =>
              Outside(GivenArgs) = {} /\ Outside(Outcome.args) = {}
        /\ GivenAction \notin TasksFamily =>
              LET valid == [k \in DOMAIN GivenArgs \ Outside(GivenArgs) |-> GivenArgs[k]]
                  other == check_options(GivenAction, valid)
              IN  /\ Outcome.keys \cap Outside(GivenArgs) = {}
                  /\ Outcome.kind = other.kind
                  /\ Outcome.keys = other.keys
    /\ \A i \in 1..Len(tasks) :
          tasks[i].action \in TasksFamily => Outside(tasks[i].args) = {}

C2_Witness ==
    /\ Loaded
    /\ GivenAction = "import_tasks"
    /\ Outside(GivenArgs) = {"foo", "bar"}
    /\ HasTarget(GivenArgs)
    /\ Outcome.kind = "InvalidOption"

\* C3 (as claimed): a tasks-family directive whose args has only keys of
\* VALID_ARGS, with any values, passes validation.
C3_Claim ==
    Loaded /\ GivenAction \in TasksFamily /\ Outside(GivenArgs) = {} =>
        Outcome.kind = "ok"

\* apply is absent, or an empty mapping, or a mapping on the include tasks action
ApplyAccepted(action, args) ==
    \/ "apply" \notin DOMAIN args
    \/ args["apply"] = "{}"
    \/ args["apply"] = "{tags:[a]}" /\ action = "include_tasks"

\* C3 (amended): a tasks-family directive whose args has only keys of
\* VALID_ARGS passes validation exactly when _raw_params or file is non-empty
\* and apply is absent, an empty mapping, or, on the include tasks action
\* only, a non-empty mapping.
C3_ValidArgsPass ==
    Loaded /\ GivenAction \in TasksFamily /\ Outside(GivenArgs) = {} =>
        (Outcome.kind = "ok" <=>
            HasTarget(GivenArgs) /\ ApplyAccepted(GivenAction, GivenArgs))

C3_Witness ==
    /\ Loaded
    /\ GivenAction = "include_tasks"
    /\ GivenArgs = [file |-> "x.yml", apply |-> "{tags:[a]}"]
    /\ Outcome.kind = "ok"
    /\ Len(tasks) = 1

\* C4: when _raw_params is empty or absent and file holds a non-empty v, a
\* check_options that returns leaves args['_raw_params'] = v, no 'file' key,
\* and every other entry of args as it was.
C4_FileFolded ==
    /\ Loaded
    /\ Outcome.kind = "ok"
    /\ ~Truthy(Get(GivenArgs, "_raw_params", "None"))
    /\ Truthy(Get(GivenArgs, "file", "None"))
    => /\ "_raw_params" \in DOMAIN Outcome.args
       /\ Outcome.args["_raw_params"] = GivenArgs["file"]
       /\ "file" \notin DOMAIN Outcome.args
       /\ SameExcept(GivenArgs, Outcome.args, {"file", "_raw_params"})
       /\ tasks[1].args = Outcome.args

C4_Witness ==
    /\ Loaded
    /\ Outcome.kind = "ok"
    /\ GivenArgs = [file |-> "x.yml", _raw_params |-> "", apply |-> "{}", foo |-> "1"]
    /\ Outcome.args = [_raw_params |-> "x.yml", apply |-> "{}", foo |-> "1"]

\* C5 (as claimed): a non-empty apply on an action other than include tasks
\* makes check_options raise InvalidOption naming apply, so a directive that
\* passes with a non-empty apply has the include tasks action.
C5_Claim ==
    Loaded =>
        /\ Truthy(Get(GivenArgs, "apply", "{}")) /\ GivenAction # "include_tasks" =>
              Outcome.kind = "InvalidOption" /\ Outcome.keys = {"apply"}
        /\ Outcome.kind = "ok" /\ Truthy(Get(Outcome.args, "apply", "{}")) =>
              GivenAction = "include_tasks"

\* C5 (amended): a non-empty apply on an action other than include tasks
\* makes check_options fail; the failure is InvalidOption naming apply when an
\* include target is given and the check of the keys did not fail first
\* (InvalidOption naming the keys outside VALID_ARGS), and MissingTarget when
\* no target is given.  A directive that passes with a non-empty apply has
\* the include tasks action.
C5_ApplyOnlyOnIncludeTasks ==
    /\ Loaded =>
        /\ Truthy(Get(GivenArgs, "apply", "{}")) /\ GivenAction # "include_tasks" =>
              /\ Outcome.kind # "ok"
              /\ KeysRejected(GivenAction, GivenArgs) =>
                    Outcome.kind = "InvalidOption" /\ Outcome.keys = Outside(GivenArgs)
              /\ ~KeysRejected(GivenAction, GivenArgs) /\ ~HasTarget(GivenArgs) =>
                    Outcome.kind = "MissingTarget"
              /\ ~KeysRejected(GivenAction, GivenArgs) /\ HasTarget(GivenArgs) =>
                    Outcome.kind = "InvalidOption" /\ Outcome.keys = {"apply"}
        /\ Outcome.kind = "ok" /\ Truthy(Get(Outcome.args, "apply", "{}")) =>
              GivenAction = "include_tasks"
    /\ \A i \in 1..Len(tasks) :
          Truthy(Get(tasks[i].args, "apply", "{}")) => tasks[i].action = "include_tasks"

C5_Witness ==
    /\ Loaded
    /\ GivenAction = "import_tasks"
    /\ GivenArgs = [_raw_params |-> "y.yml", apply |-> "{tags:[a]}"]
    /\ Outcome.kind = "InvalidOption"
    /\ Outcome.keys = {"apply"}

\* the value is a mapping
Mapping(v) == v \in {"{}", "{tags:[a]}"}

\* C6 (as claimed): for every action, an apply that is present and no mapping,
\* with an include target given, makes check_options raise TypeMismatch, and a
\* directive that passes has apply absent or a mapping.
C6_Claim ==
    Loaded =>
        /\ /\ "apply" \in DOMAIN GivenArgs
           /\ ~Mapping(GivenArgs["apply"])
           /\ HasTarget(GivenArgs)
           => Outcome.kind = "TypeMismatch"
        /\ Outcome.kind = "ok" /\ "apply" \in DOMAIN Outcome.args =>
              Mapping(Outcome.args["apply"])

\* C6 (amended): an apply that is present and no mapping, with an include
\* target given, makes check_options fail: with TypeMismatch when the action
\* is include tasks or the value is empty, and no earlier check fails;
\* with InvalidOption naming apply when the value is non-empty and the action
\* is not include tasks; and, before either, with InvalidOption naming the
\* keys outside VALID_ARGS on a tasks-family action that has such keys.  A
\* directive that passes has apply absent or a mapping.
C6_ApplyIsMapping ==
    /\ Loaded =>
        /\ /\ "apply" \in DOMAIN GivenArgs
           /\ ~Mapping(GivenArgs["apply"])
           /\ HasTarget(GivenArgs)
           => IF KeysRejected(GivenAction, GivenArgs)
              THEN Outcome.kind = "InvalidOption" /\ Outcome.keys = Outside(GivenArgs)
              ELSE IF Truthy(GivenArgs["apply"]) /\ GivenAction # "include_tasks"
              THEN Outcome.kind = "InvalidOption" /\ Outcome.keys = {"apply"}
              ELSE Outcome.kind = "TypeMismatch"
        /\ Outcome.kind = "ok" /\ "apply" \in DOMAIN Outcome.args =>
              Mapping(Outcome.args["apply"])
    /\ \A i \in 1..Len(tasks) :
          "apply" \in DOMAIN tasks[i].args => Mapping(tasks[i].args["apply"])

C6_Witness ==
    /\ Loaded
    /\ GivenAction = "include_tasks"
    /\ GivenArgs = [file |-> "x.yml", apply |-> "not-a-mapping"]
    /\ Outcome.kind = "TypeMismatch"

---------------------------------------------------------------------------
\* the last operation was tasks[last.self].build_parent_block()
Built == last.op = "build_parent_block"

---------------------------------------------------------------------------
\* a step keeps the flag of every directive unless the engine marks it, a
\* loaded directive starts with the flag False, and a copy has its original's
C8_Step ==
    /\ \A i \in 1..Len(tasks) :
          /\ i <= Len(tasks')
          /\ tasks'[i].statically_loaded # tasks[i].statically_loaded =>
                last'.op = "mark_static" /\ last'.self = i
    /\ Len(tasks') > Len(tasks) =>
          /\ Len(tasks') = Len(tasks) + 1
          /\ last'.op \in {"load", "copy"}
          /\ last'.op = "load" => tasks'[Len(tasks')].statically_loaded = FALSE
          /\ last'.op = "copy" =>
                tasks'[Len(tasks')].statically_loaded = tasks[last'.src].statically_loaded

\* C8: statically_loaded is False on a newly loaded directive and is changed
\* by no operation but the engine's marking: not by load, check_options,
\* preprocess_data or build_parent_block; copy, with any exclude_parent and
\* exclude_tasks, gives a directive whose statically_loaded is the original's
\* at the time of the copy, True or False, and leaves the original's as it is.
C8_StaticallyLoaded == [][C8_Step]_vars

C8_Witness ==
    /\ last.op = "copy"
    /\ last.exclude_parent
    /\ ~last.exclude_tasks
    /\ tasks[last.src].statically_loaded
    /\ tasks[last.new].statically_loaded

---------------------------------------------------------------------------
\* the last operation was preprocess_data(last.ds)
Preprocessed == last.op = "preprocess_data"

\* the top-level keys the author gave that are no valid include keyword
Offending(ds) ==
    {k \in DOMAIN ds : k \notin VALID_INCLUDE_KEYWORDS /\ ds[k] # "Sentinel"}

RoleFamily == {"include_role", "import_role"}

=============================================================================
